---- MODULE Spec2Model ----
(***************************************************************************)
(* A model of the push-based stream library of src/src/index.ts.           *)
(*                                                                         *)
(* A Stream is a function from an Observer to a Subscription.  The model   *)
(* represents a Stream value by a descriptor (a record naming the factory  *)
(* that built it and its arguments) and every closure created by calling   *)
(* a Stream by an instance record in the sequence inst.  The code runs     *)
(* single-threaded: every host callback (a timer tick, a DOM event, a      *)
(* promise continuation, a call by the application) runs to completion,    *)
(* so each is one action, computed by threading a world record             *)
(*   [inst, out, caps, thrown, ret, cur]                                   *)
(* through the operators below, one operator per function of the source.   *)
(***************************************************************************)
EXTENDS Integers, Sequences, FiniteSets, TLC

VARIABLES
    stream,     \* the Stream the application subscribes to (a descriptor)
    caps,       \* which optional callbacks the application's observers supply
    inst,       \* the closures created so far, in creation order
    out,        \* the calls received by the application's observer, in order
    sub,        \* the Subscription handed back to the application (NoSub: none)
    pc,         \* "idle", "subscribed", or "failed" (the subscribe call threw)
    uncaught,   \* number of exceptions that escaped a host callback
    unsubs,     \* number of times the application invoked sub
    second      \* sub, pc and unsubs of a second subscription to stream

vars == <<stream, caps, inst, out, sub, pc, uncaught, unsubs, second>>

(***************************************************************************)
(* Bounds of the model.                                                    *)
(***************************************************************************)
MaxTick == 2        \* timer ticks explored per periodic subscription
MaxFire == 2        \* event occurrences explored per listener
MaxUnsub == 2       \* invocations of the application's Subscription

(***************************************************************************)
(* Values.                                                                 *)
(***************************************************************************)
Undefined == -1     \* the JavaScript value undefined, as a datum
Marker == -2        \* combine's private sentinel object, distinct from any datum
RejectReason == -3  \* the reason a rejected promise carries
ThrownError == -4   \* the exception of calling an uninitialised const or undefined

NoSub == 0          \* a Subscription variable holding undefined
Uninit == -1        \* a const Subscription read before its initialiser returned

Terminal == [n |-> 0, role |-> 1]   \* the application's observer
Terminal2 == [n |-> 0, role |-> 2]  \* the observer of a second subscription

\* The functions handed to map and scan in the model.
Apply(f, x) ==
    CASE f = "double" -> 2 * x
      [] f = "inc" -> x + 1
      [] f = "one" -> 1
      [] f = "toPeriodic" -> [op |-> "periodic"]
      [] f = "toEvent" -> [op |-> "fromEvent"]
      [] f = "toPromise" -> [op |-> "fromPromise", data |-> x]
      [] f = "toMergeTake" ->
            [op |-> "merge",
             streams |-> <<[op |-> "periodic"],
                           [op |-> "take", n |-> 1,
                            source |-> [op |-> "startWith", data |-> 9,
                                        source |-> [op |-> "periodic"]]]>>]
      [] f = "pick" -> IF x = 0 THEN [op |-> "fromPromise", data |-> 7]
                       ELSE IF x = 1 THEN [op |-> "periodic"]
                       ELSE [op |-> "fromEvent"]

Apply2(f, acc, x) ==
    CASE f = "add" -> acc + x

(***************************************************************************)
(* World helpers.                                                          *)
(***************************************************************************)
New(s, r) == [s EXCEPT !.inst = Append(@, r)]

Upd(s, id, fld, v) == IF s.thrown THEN s ELSE [s EXCEPT !.inst[id][fld] = v]

Throw(s) == [s EXCEPT !.thrown = TRUE]

Return(s, subscription) == IF s.thrown THEN s ELSE [s EXCEPT !.ret = subscription]

RECURSIVE Stream(_, _, _), obsNext(_, _, _), obsError(_, _, _), obsComplete(_, _),
          Subscription(_, _)

(***************************************************************************)
(* The application's observers (subscribe's obs): they record what they    *)
(* get, with the observer called (to) and the source whose host callback   *)
(* was running (from; 0: the application).  next is mandatory; error and   *)
(* complete are optional, and every call site uses ?.(), so a callback     *)
(* that is not supplied is skipped.                                        *)
(***************************************************************************)
terminalNext(s, o, data) ==
    [s EXCEPT !.out = Append(@, [t |-> "next", v |-> data, to |-> o.role,
                                 from |-> s.cur])]

terminalError(s, o, e) ==
    IF s.caps.error
    THEN [s EXCEPT !.out = Append(@, [t |-> "error", v |-> e, to |-> o.role,
                                      from |-> s.cur])]
    ELSE s

terminalComplete(s, o) ==
    IF s.caps.complete
    THEN [s EXCEPT !.out = Append(@, [t |-> "complete", v |-> 0, to |-> o.role,
                                      from |-> s.cur])]
    ELSE s

(***************************************************************************)
(* periodic.  active: the interval timer is set.  invoked is history: how  *)
(* often the Subscription was called (so how often clearInterval ran).     *)
(***************************************************************************)
periodic(s, d, observer) ==
    LET id == Len(s.inst) + 1
    IN Return(New(s, [op |-> "periodic", i |-> 0, active |-> TRUE,
                      invoked |-> 0, observer |-> observer]), id)

\* the callback with one counter i shared by all subscriptions
periodicTickShared(s, id) ==
    LET data == s.inst[id].i
        bumped == [k \in 1..Len(s.inst) |->
                     IF s.inst[k].op = "periodic"
                     THEN [s.inst[k] EXCEPT !.i = @ + 1]
                     ELSE s.inst[k]]
    IN obsNext([s EXCEPT !.inst = bumped], s.inst[id].observer, data)

\* the setInterval callback: observer.next(i++)
periodicTick(s, id) ==
    LET data == s.inst[id].i
    IN obsNext(Upd(s, id, "i", data + 1), s.inst[id].observer, data)

periodicUnsubscribe(s, id) ==
    LET s1 == [s EXCEPT !.inst[id].active = FALSE,
                        !.inst[id].invoked = @ + 1]
    IN obsComplete(s1, s.inst[id].observer)

(***************************************************************************)
(* fromEvent.  active: the listener is registered.  fired bounds the       *)
(* exploration; last and invoked are history.                              *)
(***************************************************************************)
fromEvent(s, d, observer) ==
    LET id == Len(s.inst) + 1
    IN Return(New(s, [op |-> "fromEvent", active |-> TRUE, fired |-> 0,
                      last |-> Undefined, invoked |-> 0, observer |-> observer]), id)

fromEventListener(s, id, ev) ==
    LET s1 == [s EXCEPT !.inst[id].fired = @ + 1, !.inst[id].last = ev]
    IN obsNext(s1, s.inst[id].observer, ev)

fromEventUnsubscribe(s, id) ==
    LET s1 == [s EXCEPT !.inst[id].active = FALSE,
                        !.inst[id].invoked = @ + 1]
    IN obsComplete(s1, s.inst[id].observer)

(***************************************************************************)
(* fromPromise.  state is the promise's; invoked is history.               *)
(***************************************************************************)
fromPromise(s, d, observer) ==
    LET id == Len(s.inst) + 1
    IN Return(New(s, [op |-> "fromPromise", state |-> "pending", data |-> d.data,
                      invoked |-> 0, observer |-> observer]), id)

\* the .catch continuation
fromPromiseCatch(s, id, err) ==
    obsError([s EXCEPT !.thrown = FALSE], s.inst[id].observer, err)

\* the .then continuation; what it throws is handed to the .catch continuation
fromPromiseThen(s, id) ==
    LET s0 == [s EXCEPT !.inst[id].state = "resolved"]
        s1 == obsNext(s0, s.inst[id].observer, s.inst[id].data)
        s2 == obsComplete(s1, s.inst[id].observer)
    IN IF s2.thrown THEN fromPromiseCatch(s2, id, ThrownError) ELSE s2

\* the promise rejects: .then is skipped, .catch runs
fromPromiseRejected(s, id) ==
    fromPromiseCatch([s EXCEPT !.inst[id].state = "rejected"], id, RejectReason)

\* a Subscription that completes its observer, as the other sources' do
fromPromiseUnsubscribeCompleting(s, id) ==
    obsComplete([s EXCEPT !.inst[id].invoked = @ + 1], s.inst[id].observer)

fromPromiseUnsubscribe(s, id) == [s EXCEPT !.inst[id].invoked = @ + 1]

(***************************************************************************)
(* map                                                                     *)
(***************************************************************************)
map(s, d, observer) ==
    LET id == Len(s.inst) + 1
        s0 == New(s, [op |-> "map", f |-> d.f, observer |-> observer])
    IN Stream(s0, d.source, [n |-> id, role |-> 0])

mapNext(s, id, data) ==
    obsNext(s, s.inst[id].observer, Apply(s.inst[id].f, data))

(***************************************************************************)
(* scan                                                                    *)
(***************************************************************************)
scan(s, d, observer) ==
    LET id == Len(s.inst) + 1
        s0 == New(s, [op |-> "scan", f |-> d.f, current |-> d.initialValue,
                      observer |-> observer])
        s1 == obsNext(s0, observer, d.initialValue)
    IN Stream(s1, d.source, [n |-> id, role |-> 0])

\* scanNext that emits f(current, data) and leaves current as it was
scanNextNoStore(s, id, data) ==
    obsNext(s, s.inst[id].observer, Apply2(s.inst[id].f, s.inst[id].current, data))

scanNext(s, id, data) ==
    LET current == Apply2(s.inst[id].f, s.inst[id].current, data)
    IN obsNext(Upd(s, id, "current", current), s.inst[id].observer, current)

(***************************************************************************)
(* take                                                                    *)
(***************************************************************************)
take(s, d, observer) ==
    LET id == Len(s.inst) + 1
        s0 == New(s, [op |-> "take", n |-> d.n, i |-> 0, unsubscribe |-> Uninit,
                      observer |-> observer])
        s1 == Stream(s0, d.source, [n |-> id, role |-> 0])
    IN Return(Upd(s1, id, "unsubscribe", s1.ret), s1.ret)

takeNext(s, id, data) ==
    LET s1 == obsNext(s, s.inst[id].observer, data)
        s2 == Upd(s1, id, "i", s1.inst[id].i + 1)
    IN IF ~s2.thrown /\ s2.inst[id].i = s2.inst[id].n
       THEN Subscription(s2, s2.inst[id].unsubscribe)
       ELSE s2

(***************************************************************************)
(* startWith                                                               *)
(***************************************************************************)
startWith(s, d, observer) ==
    Stream(obsNext(s, observer, d.data), d.source, observer)

(***************************************************************************)
(* merge                                                                   *)
(***************************************************************************)
RECURSIVE mergeLoop(_, _, _, _), unsubscribeAll(_, _, _)

\* the loop leaving after its first round
unsubscribeFirstOnly(s, id, i) ==
    Subscription(s, s.inst[id].unsubscribes[1])

\* for(const unsub of unsubscribes) unsub();  (shared by merge and combine)
unsubscribeAll(s, id, i) ==
    IF s.thrown \/ i > Len(s.inst[id].unsubscribes) THEN s
    ELSE unsubscribeAll(Subscription(s, s.inst[id].unsubscribes[i]), id, i + 1)

mergeLoop(s, d, id, i) ==
    IF s.thrown \/ i > Len(d.streams) THEN s
    ELSE LET s1 == Stream(s, d.streams[i], [n |-> id, role |-> i])
         IN mergeLoop(Upd(s1, id, "unsubscribes",
                          [s1.inst[id].unsubscribes EXCEPT ![i] = s1.ret]),
                      d, id, i + 1)

merge(s, d, observer) ==
    LET id == Len(s.inst) + 1
        s0 == New(s, [op |-> "merge", length |-> Len(d.streams),
                      unsubscribes |-> [k \in 1..Len(d.streams) |-> NoSub],
                      numCompleted |-> 0, observer |-> observer])
    IN Return(mergeLoop(s0, d, id, 1), id)

\* next of {...observer, complete} forwarding only before any completion
mergeNextGuarded(s, id, data) ==
    IF s.inst[id].numCompleted = 0
    THEN obsNext(s, s.inst[id].observer, data)
    ELSE s

\* next of {...observer, complete}: the downstream observer's own next
mergeNext(s, id, data) == obsNext(s, s.inst[id].observer, data)

mergeComplete(s, id) ==
    LET s1 == Upd(s, id, "numCompleted", s.inst[id].numCompleted + 1)
    IN IF s1.inst[id].numCompleted = s1.inst[id].length
       THEN obsComplete(s1, s1.inst[id].observer)
       ELSE s1

mergeUnsubscribe(s, id) == unsubscribeAll(s, id, 1)

(***************************************************************************)
(* combine                                                                 *)
(***************************************************************************)
RECURSIVE combineLoop(_, _, _, _)

combineLoop(s, d, id, i) ==
    IF s.thrown \/ i > Len(d.streams) THEN s
    ELSE LET s1 == Stream(s, d.streams[i], [n |-> id, role |-> i])
         IN combineLoop(Upd(s1, id, "unsubscribes",
                            [s1.inst[id].unsubscribes EXCEPT ![i] = s1.ret]),
                        d, id, i + 1)

combine(s, d, observer) ==
    LET id == Len(s.inst) + 1
        s0 == New(s, [op |-> "combine", length |-> Len(d.streams),
                      values |-> [k \in 1..Len(d.streams) |-> Marker],
                      unsubscribes |-> [k \in 1..Len(d.streams) |-> NoSub],
                      numData |-> 0, numCompleted |-> 0, observer |-> observer])
    IN Return(combineLoop(s0, d, id, 1), id)

\* combineNext without the marker test: every value counts as a first value
combineNextCounting(s, id, i, data) ==
    LET s1 == Upd(s, id, "numData", s.inst[id].numData + 1)
        s2 == Upd(s1, id, "values", [s1.inst[id].values EXCEPT ![i] = data])
    IN IF s2.inst[id].numData = s2.inst[id].length
       THEN obsNext(s2, s2.inst[id].observer, s2.inst[id].values)
       ELSE s2

\* combineNext emitting the tuple before it stores the value
combineNextEmitFirst(s, id, i, data) ==
    LET s1 == IF s.inst[id].values[i] = Marker
              THEN Upd(s, id, "numData", s.inst[id].numData + 1)
              ELSE s
        s2 == IF s1.inst[id].numData = s1.inst[id].length
              THEN obsNext(s1, s1.inst[id].observer, s1.inst[id].values)
              ELSE s1
    IN Upd(s2, id, "values", [s2.inst[id].values EXCEPT ![i] = data])

combineNext(s, id, i, data) ==
    LET s1 == IF s.inst[id].values[i] = Marker
              THEN Upd(s, id, "numData", s.inst[id].numData + 1)
              ELSE s
        s2 == Upd(s1, id, "values", [s1.inst[id].values EXCEPT ![i] = data])
    IN IF s2.inst[id].numData = s2.inst[id].length
       THEN obsNext(s2, s2.inst[id].observer, s2.inst[id].values)
       ELSE s2

combineComplete(s, id) ==
    LET s1 == Upd(s, id, "numCompleted", s.inst[id].numCompleted + 1)
    IN IF s1.inst[id].numCompleted = s1.inst[id].length
       THEN obsComplete(s1, s1.inst[id].observer)
       ELSE s1

combineUnsubscribe(s, id) == unsubscribeAll(s, id, 1)

(***************************************************************************)
(* flatten.  The observer given to the outer stream has role 0, the one    *)
(* given to every inner stream has role 1.  inners is history: the first   *)
(* instance created for each inner stream received, in order.              *)
(***************************************************************************)
flatten(s, d, observer) ==
    LET id == Len(s.inst) + 1
        s0 == New(s, [op |-> "flatten", innerSub |-> NoSub, outerCompleted |-> FALSE,
                      unsubscribe |-> Uninit, inners |-> <<>>, observer |-> observer])
        s1 == Stream(s0, d.outer, [n |-> id, role |-> 0])
    IN Return(Upd(s1, id, "unsubscribe", s1.ret), id)

\* the outer observer's next(stream)
flattenNext(s, id, inner) ==
    LET s1 == IF s.inst[id].innerSub # NoSub
              THEN Subscription(s, s.inst[id].innerSub)
              ELSE s
        s2 == Upd(s1, id, "inners", Append(s1.inst[id].inners, Len(s1.inst) + 1))
        s3 == Stream(s2, inner, [n |-> id, role |-> 1])
    IN Upd(s3, id, "innerSub", s3.ret)

\* the outer observer's complete()
flattenComplete(s, id) == Upd(s, id, "outerCompleted", TRUE)

\* the inner observer's next(data)
flattenInnerNext(s, id, data) == obsNext(s, s.inst[id].observer, data)

\* the inner observer's complete()
flattenInnerComplete(s, id) ==
    LET s1 == Upd(s, id, "innerSub", NoSub)
    IN IF s1.inst[id].outerCompleted
       THEN obsComplete(s1, s1.inst[id].observer)
       ELSE s1

flattenUnsubscribe(s, id) ==
    LET s1 == Subscription(s, s.inst[id].unsubscribe)
    IN IF ~s1.thrown /\ s1.inst[id].innerSub # NoSub
       THEN Subscription(s1, s1.inst[id].innerSub)
       ELSE s1

(***************************************************************************)
(* Calling a Stream, an Observer's callbacks and a Subscription.           *)
(***************************************************************************)
\* stream(observer): runs the factory's closure; the Subscription is s.ret
Stream(s, d, observer) ==
    IF s.thrown THEN s
    ELSE CASE d.op = "periodic" -> periodic(s, d, observer)
           [] d.op = "fromEvent" -> fromEvent(s, d, observer)
           [] d.op = "fromPromise" -> fromPromise(s, d, observer)
           [] d.op = "map" -> map(s, d, observer)
           [] d.op = "scan" -> scan(s, d, observer)
           [] d.op = "take" -> take(s, d, observer)
           [] d.op = "startWith" -> startWith(s, d, observer)
           [] d.op = "merge" -> merge(s, d, observer)
           [] d.op = "combine" -> combine(s, d, observer)
           [] d.op = "flatten" -> flatten(s, d, observer)

\* observer.next(data)
obsNext(s, o, data) ==
    IF s.thrown THEN s
    ELSE IF o.n = 0 THEN terminalNext(s, o, data)
    ELSE CASE s.inst[o.n].op = "map" -> mapNext(s, o.n, data)
           [] s.inst[o.n].op = "scan" -> scanNext(s, o.n, data)
           [] s.inst[o.n].op = "take" -> takeNext(s, o.n, data)
           [] s.inst[o.n].op = "merge" -> mergeNext(s, o.n, data)
           [] s.inst[o.n].op = "combine" -> combineNext(s, o.n, o.role, data)
           [] s.inst[o.n].op = "flatten" ->
                IF o.role = 0 THEN flattenNext(s, o.n, data)
                ELSE flattenInnerNext(s, o.n, data)

\* flatten's observers built without error: observer.error
obsErrorNotThroughFlatten(s, o, e) ==
    IF s.thrown THEN s
    ELSE IF o.n = 0 THEN terminalError(s, o, e)
    ELSE IF s.inst[o.n].op = "flatten" THEN s
    ELSE obsError(s, s.inst[o.n].observer, e)

\* observer.error?.(e): map, scan, take and merge spread the downstream
\* observer, combine and flatten set error: observer.error, so in every
\* operator the error callback is the downstream observer's own
obsError(s, o, e) ==
    IF s.thrown THEN s
    ELSE IF o.n = 0 THEN terminalError(s, o, e)
    ELSE obsError(s, s.inst[o.n].observer, e)

\* observer.complete?.()
obsComplete(s, o) ==
    IF s.thrown THEN s
    ELSE IF o.n = 0 THEN terminalComplete(s, o)
    ELSE CASE s.inst[o.n].op \in {"map", "scan", "take"} ->
                obsComplete(s, s.inst[o.n].observer)
           [] s.inst[o.n].op = "merge" -> mergeComplete(s, o.n)
           [] s.inst[o.n].op = "combine" -> combineComplete(s, o.n)
           [] s.inst[o.n].op = "flatten" ->
                IF o.role = 0 THEN flattenComplete(s, o.n)
                ELSE flattenInnerComplete(s, o.n)

\* subscription(): calling a value of type Subscription
Subscription(s, subscription) ==
    IF s.thrown THEN s
    ELSE IF subscription \in {Uninit, NoSub} THEN Throw(s)
    ELSE CASE s.inst[subscription].op = "periodic" -> periodicUnsubscribe(s, subscription)
           [] s.inst[subscription].op = "fromEvent" -> fromEventUnsubscribe(s, subscription)
           [] s.inst[subscription].op = "fromPromise" -> fromPromiseUnsubscribe(s, subscription)
           [] s.inst[subscription].op = "merge" -> mergeUnsubscribe(s, subscription)
           [] s.inst[subscription].op = "combine" -> combineUnsubscribe(s, subscription)
           [] s.inst[subscription].op = "flatten" -> flattenUnsubscribe(s, subscription)

(***************************************************************************)
(* The state machine: one action per host callback.                        *)
(***************************************************************************)
World(cur) ==
    [inst |-> inst, out |-> out, caps |-> caps, thrown |-> FALSE, ret |-> NoSub,
     cur |-> cur]

Commit(s) ==
    /\ inst' = s.inst
    /\ out' = s.out
    /\ uncaught' = uncaught + (IF s.thrown THEN 1 ELSE 0)

P(x) == [op |-> "fromPromise", data |-> x]
Periodic == [op |-> "periodic"]
FromEvent == [op |-> "fromEvent"]
Take(n, d) == [op |-> "take", n |-> n, source |-> d]
Map(f, d) == [op |-> "map", f |-> f, source |-> d]
Scan(f, initialValue, d) ==
    [op |-> "scan", f |-> f, initialValue |-> initialValue, source |-> d]
StartWith(data, d) == [op |-> "startWith", data |-> data, source |-> d]
Merge(ss) == [op |-> "merge", streams |-> ss]
Combine(ss) == [op |-> "combine", streams |-> ss]
Flatten(d) == [op |-> "flatten", outer |-> d]

ScanStreams ==
    {Scan("add", 0, Map("inc", Periodic)), Scan("add", 5, Periodic)}

\* the sources alone, and chains of take and scan over them
ChainStreams ==
    {Periodic, FromEvent, P(5)}
    \cup ScanStreams
    \cup {Take(n, Periodic) : n \in 0..2}
    \cup {Take(2, FromEvent),
          Take(1, [op |-> "merge", streams |-> <<P(1), P(2)>>]),
          Take(1, [op |-> "startWith", data |-> 9, source |-> Periodic]),
          Take(2, [op |-> "startWith", data |-> 9, source |-> Periodic]),
          Take(1, [op |-> "scan", f |-> "add", initialValue |-> 0,
                   source |-> FromEvent])}

MergeStreams ==
    { [op |-> "merge", streams |-> ss] :
        ss \in {<<Periodic>>, <<Periodic, P(5)>>, <<P(1), P(2)>>,
                <<Take(1, Periodic), P(5)>>, <<Take(1, Periodic), FromEvent>>,
                <<FromEvent, Map("double", Periodic)>>} }

CombineStreams ==
    { [op |-> "combine", streams |-> ss] :
        ss \in {<<Periodic, P(Undefined)>>, <<FromEvent, Map("double", Periodic)>>,
                <<P(5), FromEvent>>, <<Periodic, P(5), Periodic>>} }

FlattenStreams ==
    { [op |-> "flatten", outer |-> d] :
        d \in {Map("pick", FromEvent), Take(2, Map("pick", FromEvent)),
               Map("toPromise", Periodic)} }

\* a promise source below every operator
ErrorStreams ==
    {Map("double", P(1)), Scan("add", 0, P(1)), Take(1, P(1)), Take(2, P(1)),
     StartWith(9, P(1)), Merge(<<P(1), Periodic>>), Combine(<<P(1), FromEvent>>),
     Flatten(Map("toPromise", FromEvent)), Flatten(Map("pick", P(1)))}

\* streams over timers only, subscribed twice
ColdStreams ==
    {Periodic, Scan("add", 0, Periodic), Take(1, Periodic),
     Merge(<<Periodic, Take(1, Periodic)>>),
     Combine(<<Periodic, Take(1, Periodic)>>),
     Flatten(Map("toPeriodic", Take(1, Periodic)))}

\* every operator over timer and event sources only
TimerStreams ==
    {Map("double", Periodic), Scan("add", 0, FromEvent), StartWith(9, Periodic),
     Take(2, Periodic), Merge(<<Periodic, FromEvent>>),
     Combine(<<Periodic, FromEvent>>), Flatten(Map("toPeriodic", FromEvent)),
     Flatten(Map("toMergeTake", FromEvent))}

InitWith(streams) ==
    /\ stream \in streams
    /\ caps \in [error : BOOLEAN, complete : BOOLEAN]
    /\ second = [sub |-> NoSub, pc |-> "idle", unsubs |-> 0]
    /\ inst = <<>>
    /\ out = <<>>
    /\ sub = NoSub
    /\ pc = "idle"
    /\ uncaught = 0
    /\ unsubs = 0

\* pipe(stream, subscribe(obs))
Subscribe ==
    /\ pc = "idle"
    /\ LET s == Stream(World(0), stream, Terminal)
       IN /\ Commit(s)
          /\ sub' = IF s.thrown THEN NoSub ELSE s.ret
          /\ pc' = IF s.thrown THEN "failed" ELSE "subscribed"
    /\ UNCHANGED <<stream, caps, unsubs, second>>

\* the application invokes the Subscription it was given
Unsubscribe ==
    /\ pc = "subscribed"
    /\ unsubs < MaxUnsub
    /\ Commit(Subscription(World(0), sub))
    /\ unsubs' = unsubs + 1
    /\ UNCHANGED <<stream, caps, sub, pc, second>>

\* a timer set by periodic fires
Tick(id) ==
    /\ inst[id].op = "periodic"
    /\ inst[id].active
    /\ inst[id].i < MaxTick
    /\ Commit(periodicTick(World(id), id))
    /\ UNCHANGED <<stream, caps, sub, pc, unsubs, second>>

\* an event reaches a listener registered by fromEvent
Fire(id, ev) ==
    /\ inst[id].op = "fromEvent"
    /\ inst[id].active
    /\ inst[id].fired < MaxFire
    /\ Commit(fromEventListener(World(id), id, ev))
    /\ UNCHANGED <<stream, caps, sub, pc, unsubs, second>>

\* a promise given to fromPromise resolves
Resolve(id) ==
    /\ inst[id].op = "fromPromise"
    /\ inst[id].state = "pending"
    /\ Commit(fromPromiseThen(World(id), id))
    /\ UNCHANGED <<stream, caps, sub, pc, unsubs, second>>

\* a promise given to fromPromise rejects
Reject(id) ==
    /\ inst[id].op = "fromPromise"
    /\ inst[id].state = "pending"
    /\ Commit(fromPromiseRejected(World(id), id))
    /\ UNCHANGED <<stream, caps, sub, pc, unsubs, second>>

\* pipe(stream, subscribe(obs2)): the same stream subscribed a second time
Subscribe2 ==
    /\ pc # "idle"
    /\ second.pc = "idle"
    /\ LET s == Stream(World(0), stream, Terminal2)
       IN /\ Commit(s)
          /\ second' = [second EXCEPT
                           !.sub = IF s.thrown THEN NoSub ELSE s.ret,
                           !.pc = IF s.thrown THEN "failed" ELSE "subscribed"]
    /\ UNCHANGED <<stream, caps, sub, pc, unsubs>>

\* the application invokes the second Subscription
Unsubscribe2 ==
    /\ second.pc = "subscribed"
    /\ second.unsubs < MaxUnsub
    /\ Commit(Subscription(World(0), second.sub))
    /\ second' = [second EXCEPT !.unsubs = @ + 1]
    /\ UNCHANGED <<stream, caps, sub, pc, unsubs>>

Events == 0..2

Next ==
    \/ Subscribe
    \/ Unsubscribe
    \/ \E id \in 1..Len(inst) : Tick(id)
    \/ \E id \in 1..Len(inst), ev \in Events : Fire(id, ev)
    \/ \E id \in 1..Len(inst) : Resolve(id)
    \/ \E id \in 1..Len(inst) : Reject(id)

SpecChain == InitWith(ChainStreams) /\ [][Next]_vars
SpecMerge == InitWith(MergeStreams) /\ [][Next]_vars
SpecCombine == InitWith(CombineStreams) /\ [][Next]_vars
SpecFlatten == InitWith(FlattenStreams) /\ [][Next]_vars
SpecFanIn == InitWith(MergeStreams \cup CombineStreams) /\ [][Next]_vars
SpecError == InitWith(ErrorStreams) /\ [][Next]_vars

\* timers and events are the only host callbacks of these streams
NextTimers ==
    \/ Subscribe
    \/ Unsubscribe
    \/ \E id \in 1..Len(inst) : Tick(id)
    \/ \E id \in 1..Len(inst), ev \in Events : Fire(id, ev)

SpecTimers == InitWith(TimerStreams) /\ [][NextTimers]_vars

\* two subscriptions to one stream built from timers
NextCold ==
    \/ Subscribe
    \/ Subscribe2
    \/ Unsubscribe
    \/ Unsubscribe2
    \/ \E id \in 1..Len(inst) : Tick(id)

\* both application observers define error and complete
InitCold ==
    /\ InitWith(ColdStreams)
    /\ caps = [error |-> TRUE, complete |-> TRUE]

SpecCold == InitCold /\ [][NextCold]_vars

(***************************************************************************)
(* Vocabulary of the properties.                                           *)
(***************************************************************************)
Nexts(o) == Cardinality({k \in 1..Len(o) : o[k].t = "next"})
Completes(o) == Cardinality({k \in 1..Len(o) : o[k].t = "complete"})
Terminals(o) == {k \in 1..Len(o) : o[k].t \in {"complete", "error"}}

Leaf(r) == r.op \in {"periodic", "fromEvent", "fromPromise"}
Leaves(instances) == {id \in 1..Len(instances) : Leaf(instances[id])}

\* the source has called complete on its observer
Completed(r) ==
    IF r.op = "fromPromise" THEN r.state = "resolved" ELSE r.invoked > 0

\* the source is subscribed and has delivered no terminal event
StillActive(r) ==
    IF r.op = "fromPromise" THEN r.state = "pending" ELSE r.invoked = 0

\* the source has delivered at least one value
Produced(r) ==
    CASE r.op = "periodic" -> r.i > 0
      [] r.op = "fromEvent" -> r.fired > 0
      [] r.op = "fromPromise" -> r.state = "resolved"

\* the timer or listener of a periodic or event source is still set
Armed(r) == r.op \in {"periodic", "fromEvent"} /\ r.active

Last(q) == q[Len(q)]

IsFlatten == stream \in FlattenStreams /\ pc = "subscribed"
IsMerge == stream \in MergeStreams /\ pc = "subscribed"
IsCombine == stream \in CombineStreams /\ pc = "subscribed"

(***************************************************************************)
(* flatten                                                                 *)
(***************************************************************************)
C1Step ==
    IsFlatten =>
        LET before == inst[1].inners
            after == inst'[1].inners
        IN /\ (/\ Len(after) > Len(before)
               /\ before # <<>>
               /\ ~Completed(inst[Last(before)]))
              => inst'[Last(before)].invoked = inst[Last(before)].invoked + 1
           /\ \A k \in (Len(out) + 1)..Len(out') :
                out'[k].t = "next" => out'[k].from = Last(after)

\* C1: when the outer stream delivers an inner stream S2 while the previous
\* inner stream S1 has not completed, S1's Subscription is invoked in that
\* step, and every value delivered downstream comes from the inner stream
\* received last, whatever the kind of the inner streams.
C1_SwitchLatest == [][C1Step]_vars

\* C2: in every state in which flatten has delivered complete downstream,
\* the outer stream has completed and no inner stream received from it is
\* still active.
C2_CompleteOnlyWhenAllDone ==
    (IsFlatten /\ Completes(out) > 0) =>
        /\ inst[1].outerCompleted
        /\ \A k \in 1..Len(inst[1].inners) : ~StillActive(inst[inst[1].inners[k]])

\* C3: once the Subscription returned by flatten has been invoked, the outer
\* stream's Subscription has been invoked and no timer or listener of an
\* inner stream remains set.
C3_UnsubscribeReleasesAll ==
    (IsFlatten /\ unsubs > 0) =>
        /\ \A id \in Leaves(inst) :
              id \notin {inst[1].inners[k] : k \in 1..Len(inst[1].inners)}
              => inst[id].invoked > 0
        /\ \A id \in 1..Len(inst) : ~Armed(inst[id])

(***************************************************************************)
(* take and the sources                                                    *)
(***************************************************************************)
\* C4: take(n), n >= 1, never delivers more than n values downstream, and
\* once the n-th value has been forwarded the upstream Subscription has been
\* invoked.
C4_TakeAtMostN ==
    (stream.op = "take" /\ stream.n >= 1 /\ pc = "subscribed") =>
        /\ Nexts(out) <= stream.n
        /\ Nexts(out) >= stream.n => \A id \in Leaves(inst) : inst[id].invoked > 0

\* C6: for the periodic and event sources and take over them, however often
\* the Subscription is invoked, complete is delivered at most once and the
\* timer or listener is released at most once.
C6_IdempotentSubscription ==
    (/\ stream \in {Periodic, FromEvent} \cup
                   {Take(n, d) : n \in 1..2, d \in {Periodic, FromEvent}}
     /\ pc = "subscribed") =>
        /\ Completes(out) <= 1
        /\ \A id \in Leaves(inst) : inst[id].invoked <= 1

SyncStreams ==
    {Take(1, [op |-> "startWith", data |-> 9, source |-> Periodic]),
     Take(1, [op |-> "scan", f |-> "add", initialValue |-> 0, source |-> FromEvent])}

\* C10: when the upstream delivers the n-th value inside the subscribe call,
\* the call of take(n)'s stream returns a Subscription without throwing and
\* the upstream ends up cancelled.
C10_TakeSyncSubscribe ==
    (stream \in SyncStreams /\ pc # "idle") =>
        /\ pc = "subscribed"
        /\ sub # NoSub
        /\ uncaught = 0
        /\ Leaves(inst) # {}
        /\ \A id \in Leaves(inst) : inst[id].invoked > 0 /\ ~inst[id].active

(***************************************************************************)
(* merge                                                                   *)
(***************************************************************************)
\* C5: merge delivers complete downstream at most once, and only in a state
\* where every input has delivered complete.
C5_MergeCompleteAfterAll ==
    IsMerge =>
        /\ Completes(out) <= 1
        /\ Completes(out) > 0 => \A id \in Leaves(inst) : Completed(inst[id])

\* C7: while its Subscription has not been invoked, a stream built by merge
\* over inputs that each deliver at most one terminal event delivers at most
\* one terminal call downstream and no next after it.
C7_OneTerminalThenSilence ==
    (IsMerge /\ unsubs = 0) =>
        /\ Cardinality(Terminals(out)) <= 1
        /\ \A k \in Terminals(out) : k = Len(out)
(***************************************************************************)
(* combine                                                                 *)
(***************************************************************************)
RECURSIVE Feeds(_, _), Seen(_, _, _)

\* the input of the top operator (instance 1) that observer o belongs to
Feeds(instances, o) ==
    IF o.n = 1 THEN o.role ELSE Feeds(instances, instances[o.n].observer)

\* the value x given to observer o, as it reaches the top operator
Seen(instances, o, x) ==
    IF o.n = 1 THEN x
    ELSE Seen(instances, instances[o.n].observer,
              IF instances[o.n].op = "map" THEN Apply(instances[o.n].f, x) ELSE x)

\* the last value a source has produced
LatestRaw(r) ==
    CASE r.op = "periodic" -> r.i - 1
      [] r.op = "fromEvent" -> r.last
      [] r.op = "fromPromise" -> r.data

InputLeaf(instances, j) ==
    CHOOSE id \in Leaves(instances) : Feeds(instances, instances[id].observer) = j

\* the most recent value of every input, from the sources' own state
Expected(instances) ==
    [j \in 1..instances[1].length |->
        LET id == InputLeaf(instances, j)
        IN Seen(instances, instances[id].observer, LatestRaw(instances[id]))]

AllProduced(instances) == \A id \in Leaves(instances) : Produced(instances[id])

\* C8: combine delivers no value downstream while some input has produced
\* nothing, no tuple it delivers holds the marker in any slot, and once
\* every input has produced a value (undefined included) it has delivered.
C8_CombineNoMarker ==
    IsCombine =>
        /\ ~AllProduced(inst) => Nexts(out) = 0
        /\ AllProduced(inst) => Nexts(out) > 0
        /\ \A k \in 1..Len(out) :
              out[k].t = "next" =>
                /\ Len(out[k].v) = Len(stream.streams)
                /\ \A j \in 1..Len(out[k].v) : out[k].v[j] # Marker

\* a tuple holding undefined, produced by the promise input, was delivered
C8_Witness ==
    /\ IsCombine
    /\ stream.streams = <<Periodic, P(Undefined)>>
    /\ \E k \in 1..Len(out) : out[k].t = "next" /\ out[k].v[2] = Undefined

\* the step is the arrival of a value from source id
Arrived(id) ==
    CASE inst[id].op = "periodic" -> inst'[id].i = inst[id].i + 1
      [] inst[id].op = "fromEvent" -> inst'[id].fired = inst[id].fired + 1
      [] inst[id].op = "fromPromise" ->
            inst[id].state = "pending" /\ inst'[id].state = "resolved"

C9Step ==
    IsCombine =>
        \A id \in Leaves(inst) :
            (Arrived(id) /\ AllProduced(inst')) =>
                LET new == {k \in (Len(out) + 1)..Len(out') : out'[k].t = "next"}
                IN /\ Cardinality(new) = 1
                   /\ \A k \in new : out'[k].v = Expected(inst')

\* C9: once every input has produced a value, each arriving value causes
\* exactly one emission: the tuple of the most recent value of every input,
\* the arriving value in its own slot; the value that makes the last input
\* ready causes the first emission.
C9_CombineLatest == [][C9Step]_vars

\* two successive tuples that differ in the first slot and keep the second
C9_Witness ==
    /\ IsCombine
    /\ \E k \in 1..(Len(out) - 1) :
          /\ out[k].t = "next" /\ out[k + 1].t = "next"
          /\ out[k].v[1] # out[k + 1].v[1]
          /\ out[k].v[2] = out[k + 1].v[2]
(***************************************************************************)
(* flatten: completion and the inner handle                                *)
(***************************************************************************)
\* C11: in every state where the outer stream has completed and every inner
\* stream received from it has completed (or none was received), flatten
\* has delivered complete to a downstream observer that supplies complete.
C11_FlattenCompletes ==
    (/\ IsFlatten
     /\ caps.complete
     /\ inst[1].outerCompleted
     /\ \A k \in 1..Len(inst[1].inners) : Completed(inst[inst[1].inners[k]]))
    => Completes(out) > 0
(***************************************************************************)
(* merge and combine: cancellation                                         *)
(***************************************************************************)
IsFanIn == stream \in MergeStreams \cup CombineStreams /\ pc = "subscribed"

\* C12: every invocation of the Subscription returned by merge or combine
\* invokes the Subscription of every input, and afterwards no timer or
\* listener of an input is set.
C12_FanInUnsubscribesAll ==
    (IsFanIn /\ unsubs > 0) =>
        \A id \in Leaves(inst) : inst[id].invoked >= unsubs /\ ~Armed(inst[id])

\* the operator was cancelled after a timer input had ticked, and it has
\* more than one input
C12_Witness ==
    /\ IsFanIn
    /\ unsubs = 1
    /\ Len(stream.streams) > 1
    /\ \E id \in Leaves(inst) :
          inst[id].op = "periodic" /\ inst[id].i > 0 /\ ~inst[id].active
(***************************************************************************)
(* fromPromise                                                             *)
(***************************************************************************)
Call(t, v, from) == [t |-> t, v |-> v, to |-> 1, from |-> from]

\* C13: the promise source delivers next then complete when the promise
\* resolves, error alone when it rejects, and nothing before; invoking its
\* Subscription changes none of this.
C13_PromiseOnce ==
    (stream = P(5) /\ pc = "subscribed") =>
        out = CASE inst[1].state = "pending" -> <<>>
                [] inst[1].state = "resolved" ->
                      <<Call("next", 5, 1)>> \o
                      (IF caps.complete THEN <<Call("complete", 0, 1)>> ELSE <<>>)
                [] inst[1].state = "rejected" ->
                      IF caps.error THEN <<Call("error", RejectReason, 1)>> ELSE <<>>

\* the promise resolved and the Subscription was invoked
C13_Witness ==
    /\ stream = P(5)
    /\ pc = "subscribed"
    /\ inst[1].state = "resolved"
    /\ inst[1].invoked > 0
    /\ Len(out) = 2
(***************************************************************************)
(* errors                                                                  *)
(***************************************************************************)
C14Step ==
    stream \in ErrorStreams =>
        \A id \in 1..Len(inst) :
            (/\ inst[id].op = "fromPromise"
             /\ inst[id].state = "pending"
             /\ inst'[id].state = "rejected")
            => /\ out' = IF caps.error
                         THEN Append(out, Call("error", RejectReason, id))
                         ELSE out
               /\ uncaught' = uncaught

\* C14: the rejection of a promise source below map, scan, take, startWith,
\* merge, combine or flatten (as outer or as inner stream) calls the
\* application's error callback exactly once, with the rejection's reason;
\* when the application supplies no error callback nothing is called and
\* nothing is thrown.
C14_ErrorReachesObserver == [][C14Step]_vars

\* the rejection of an inner stream of flatten has reached the application
C14_Witness ==
    /\ stream = Flatten(Map("toPromise", FromEvent))
    /\ \E k \in 1..Len(out) : out[k].t = "error" /\ out[k].v = RejectReason
(***************************************************************************)
(* scan                                                                    *)
(***************************************************************************)
IsNextCall(e) == e.t = "next"

\* the values given to next, in order
NextValues(o) ==
    LET calls == SelectSeq(o, IsNextCall)
    IN [k \in 1..Len(calls) |-> calls[k].v]

RECURSIVE Acc(_, _, _)

\* the accumulator after the first k values of the source at leaf
Acc(instances, leaf, k) ==
    IF k = 0 THEN stream.initialValue
    ELSE Apply2(stream.f, Acc(instances, leaf, k - 1),
                Seen(instances, instances[leaf].observer, k - 1))

\* C15: scan(f, seed) delivers seed at subscription and then, for the k-th
\* upstream value v_k, acc_k = f(acc_(k-1), v_k) with acc_0 = seed: m upstream
\* values give exactly these m + 1 values in order.
C15_ScanRunning ==
    (stream \in ScanStreams /\ pc = "subscribed") =>
        LET leaf == CHOOSE id \in Leaves(inst) : TRUE
        IN NextValues(out) = [k \in 1..(inst[leaf].i + 1) |-> Acc(inst, leaf, k - 1)]

\* upstream values 1, 2 with addition and seed 0 gave 0, 1, 3
C15_Witness ==
    /\ stream = Scan("add", 0, Map("inc", Periodic))
    /\ pc = "subscribed"
    /\ \E n \in 3..Len(out) : NextValues(SubSeq(out, 1, n)) = <<0, 1, 3>>
(***************************************************************************)
(* take(0)                                                                 *)
(***************************************************************************)
\* C16: take(0) delivers no value downstream and has invoked the upstream
\* Subscription as soon as the subscribe call has returned.
C16_TakeZero ==
    (stream = Take(0, Periodic) /\ pc # "idle") =>
        /\ pc = "subscribed"
        /\ Nexts(out) = 0
        /\ \A id \in Leaves(inst) : inst[id].invoked > 0
(***************************************************************************)
(* cold subscriptions                                                      *)
(***************************************************************************)
RECURSIVE Owner(_, _)

\* the application observer that observer o delivers to
Owner(instances, o) ==
    IF o.n = 0 THEN o.role ELSE Owner(instances, instances[o.n].observer)

IsCallTo1(e) == e.to = 1
IsCallTo2(e) == e.to = 2

\* the closures created for subscription k and the calls its observer got
View(instances, o, k) ==
    [closures |-> [id \in {j \in 1..Len(instances) :
                            Owner(instances, instances[j].observer) = k}
                     |-> instances[id]],
     calls |-> IF k = 1 THEN SelectSeq(o, IsCallTo1) ELSE SelectSeq(o, IsCallTo2)]

\* C17: two subscriptions to the same stream hold separate state: no step
\* (a value, a cancellation, a subscription) changes the closures or the
\* delivered sequence of both; what happens to one leaves the other as it was.
C17Step ==
    stream \in ColdStreams =>
        \/ View(inst', out', 1) = View(inst, out, 1)
        \/ View(inst', out', 2) = View(inst, out, 2)

\* C17: two subscriptions to the same stream hold separate state: no step
\* changes the closures or the delivered sequence of both.
C17_ColdSubscriptions == [][C17Step]_vars

\* both subscriptions have received values, the second was cancelled and the
\* first still runs
C17_Witness ==
    /\ stream \in ColdStreams
    /\ pc = "subscribed" /\ second.pc = "subscribed"
    /\ unsubs = 0 /\ second.unsubs > 0
    /\ \E k \in 1..Len(out) : out[k].t = "next" /\ out[k].to = 1
    /\ \E k \in 1..Len(out) : out[k].t = "next" /\ out[k].to = 2
    /\ \E id \in Leaves(inst) :
          Owner(inst, inst[id].observer) = 1 /\ Armed(inst[id])
(***************************************************************************)
(* merge: forwarding                                                       *)
(***************************************************************************)
\* some source delivers a value in this step
SomeArrived == \E id \in Leaves(inst) : Arrived(id)

C18Step ==
    IsMerge =>
        /\ SubSeq(out', 1, Len(out)) = out
        /\ \A id \in Leaves(inst) :
              Arrived(id) =>
                LET new == {k \in (Len(out) + 1)..Len(out') : out'[k].t = "next"}
                IN /\ Cardinality(new) = 1
                   /\ \A k \in new :
                        /\ out'[k].from = id
                        /\ out'[k].v = Seen(inst', inst'[id].observer,
                                            LatestRaw(inst'[id]))
        /\ ~SomeArrived => NextValues(out') = NextValues(out)

\* C18: in the step in which a value of an input arrives, merge delivers
\* exactly that value downstream, once, after everything delivered before;
\* a step without an arrival delivers no value: the downstream sequence is
\* the arrival-order interleaving of the inputs' values.
C18_MergeForwardsAll == [][C18Step]_vars

\* values of two inputs interleaved: first input, second input, first again,
\* the last one after an input has completed
C18_Witness ==
    /\ IsMerge
    /\ inst[1].numCompleted > 0
    /\ \E i, j, k \in 1..Len(out) :
          /\ i < j /\ j < k
          /\ out[i].t = "next" /\ out[j].t = "next" /\ out[k].t = "next"
          /\ out[i].from = out[k].from
          /\ out[i].from # out[j].from
(***************************************************************************)
(* flatten: the stored inner handle                                        *)
(***************************************************************************)
\* C19: between callbacks, while nothing was cancelled by the application
\* and no inner stream has failed, flatten's innerSub is defined exactly when
\* the inner stream received last is still active, and it is then the
\* Subscription of that stream.
C19_InnerHandle ==
    (/\ IsFlatten
     /\ unsubs = 0
     /\ \A id \in Leaves(inst) :
           inst[id].op = "fromPromise" => inst[id].state # "rejected")
    => LET f == inst[1]
       IN IF f.inners # <<>> /\ StillActive(inst[Last(f.inners)])
          THEN f.innerSub = Last(f.inners)
          ELSE f.innerSub = NoSub
(***************************************************************************)
(* silence after cancellation                                              *)
(***************************************************************************)
C20Step ==
    (stream \in TimerStreams /\ unsubs > 0) => Nexts(out') = Nexts(out)

\* C20: for a chain of map, scan, startWith, take, merge, combine and
\* flatten over timer and event sources, no step taken after the terminal
\* Subscription was invoked delivers a next to the terminal observer.
C20_SilentAfterUnsubscribe == [][C20Step]_vars
====
